---- MODULE Spec2Model ----
(***************************************************************************)
(* RunMate: the execution lifecycle (Executor), its completion monitor and *)
(* the security gate (SecurityChecker), modelled from src/src/executor.ts  *)
(* and src/src/security.ts.                                                *)
(*                                                                         *)
(* Texts are real strings; the regular expressions of security.ts are      *)
(* interpreted by a small backtracking matcher (MatchFrom) that follows    *)
(* the JavaScript semantics of the constructs the patterns use: literals,  *)
(* greedy \s+ \s* and .*, ordered alternation, \b, $ and the i flag.       *)
(***************************************************************************)
EXTENDS Integers, Sequences, FiniteSets, Bags, TLC

(***************************************************************************)
(* Characters and strings                                                  *)
(***************************************************************************)
CharAt(t, i) == SubSeq(t, i, i)

UpperLetters == "ABCDEFGHIJKLMNOPQRSTUVWXYZ"
LowerLetters == "abcdefghijklmnopqrstuvwxyz"
Digits == "0123456789"

IsIn(c, alphabet) == \E k \in 1..Len(alphabet) : CharAt(alphabet, k) = c

LowerChar(c) ==
    IF IsIn(c, UpperLetters)
    THEN CharAt(LowerLetters, CHOOSE k \in 1..26 : CharAt(UpperLetters, k) = c)
    ELSE c

RECURSIVE LowerStr(_)
LowerStr(s) == IF s = "" THEN "" ELSE LowerChar(CharAt(s, 1)) \o LowerStr(Tail(s))

\* \s of a JavaScript regular expression (the ASCII part)
IsSpace(c) == c \in {" ", "\t", "\n", "\r", "\f"}
\* \w
IsWord(c) == IsIn(c, UpperLetters) \/ IsIn(c, LowerLetters) \/ IsIn(c, Digits) \/ c = "_"
\* . (no s flag): anything but a line terminator
IsDot(c) == c \notin {"\n", "\r"}

IsWordAt(t, i) == i >= 1 /\ i <= Len(t) /\ IsWord(CharAt(t, i))

\* String.prototype.includes
Includes(t, sub) ==
    \E i \in 1..(Len(t) - Len(sub) + 1) : SubSeq(t, i, i + Len(sub) - 1) = sub

(***************************************************************************)
(* Regular expressions: a pattern is a sequence of elements                *)
(***************************************************************************)
Lit(s) == [k |-> "lit", s |-> s, alts |-> <<>>, min |-> 0]
Ws(min) == [k |-> "ws", s |-> "", alts |-> <<>>, min |-> min]
Dots == [k |-> "dots", s |-> "", alts |-> <<>>, min |-> 0]
Alt(alts) == [k |-> "alt", s |-> "", alts |-> alts, min |-> 0]
WsOrEnd == [k |-> "wsOrEnd", s |-> "", alts |-> <<>>, min |-> 0]
Wb == [k |-> "wb", s |-> "", alts |-> <<>>, min |-> 0]
End == [k |-> "end", s |-> "", alts |-> <<>>, min |-> 0]

\* the i flag: the literals of the patterns that carry it are lower case, so
\* matching ignoring case is matching the lower-cased text
Fold(s, ci) == IF ci THEN LowerStr(s) ELSE s

LitAt(t, i, s) ==
    /\ i + Len(s) - 1 <= Len(t)
    /\ SubSeq(t, i, i + Len(s) - 1) = s

\* length of the longest run of characters of the class starting at i
RECURSIVE RunLen(_, _, _)
RunLen(t, i, cls) ==
    IF i > Len(t) THEN 0
    ELSE IF (cls = "ws" /\ IsSpace(CharAt(t, i))) \/ (cls = "dots" /\ IsDot(CharAt(t, i)))
         THEN 1 + RunLen(t, i + 1, cls)
         ELSE 0

\* MatchFrom(p, j, t, i): elements j.. of p matched at position i of t;
\* the result is the position after the match found first in backtracking
\* order, 0 when there is none.
RECURSIVE MatchFrom(_, _, _, _)
RECURSIVE RepFrom(_, _, _, _, _, _)
RECURSIVE AltFrom(_, _, _, _, _)

RepFrom(p, j, t, i, n, min) ==
    IF n < min THEN 0
    ELSE LET r == MatchFrom(p, j + 1, t, i + n)
         IN  IF r # 0 THEN r ELSE RepFrom(p, j, t, i, n - 1, min)

AltFrom(p, j, t, i, a) ==
    IF a > Len(p[j].alts) THEN 0
    ELSE LET s == p[j].alts[a]
             r == IF LitAt(t, i, s) THEN MatchFrom(p, j + 1, t, i + Len(s)) ELSE 0
         IN  IF r # 0 THEN r ELSE AltFrom(p, j, t, i, a + 1)

MatchFrom(p, j, t, i) ==
    IF j > Len(p) THEN i
    ELSE LET e == p[j]
         IN  CASE e.k = "lit" ->
                    IF LitAt(t, i, e.s) THEN MatchFrom(p, j + 1, t, i + Len(e.s)) ELSE 0
               [] e.k = "ws" -> RepFrom(p, j, t, i, RunLen(t, i, "ws"), e.min)
               [] e.k = "dots" -> RepFrom(p, j, t, i, RunLen(t, i, "dots"), 0)
               [] e.k = "alt" -> AltFrom(p, j, t, i, 1)
               [] e.k = "wsOrEnd" ->
                    LET r == IF i <= Len(t) /\ IsSpace(CharAt(t, i))
                             THEN MatchFrom(p, j + 1, t, i + 1) ELSE 0
                    IN  IF r # 0 THEN r
                        ELSE IF i = Len(t) + 1 THEN MatchFrom(p, j + 1, t, i) ELSE 0
               [] e.k = "wb" ->
                    IF IsWordAt(t, i - 1) # IsWordAt(t, i)
                    THEN MatchFrom(p, j + 1, t, i) ELSE 0
               [] e.k = "end" ->
                    IF i = Len(t) + 1 THEN MatchFrom(p, j + 1, t, i) ELSE 0

\* RegExp.prototype.test
Test(p, t, ci) ==
    LET u == Fold(t, ci)
    IN  \E i \in 1..(Len(u) + 1) : MatchFrom(p, 1, u, i) # 0

\* String.prototype.match(p)[0]: the text of the leftmost match
Match0(p, t, ci) ==
    LET u == Fold(t, ci)
        starts == {i \in 1..(Len(u) + 1) : MatchFrom(p, 1, u, i) # 0}
        i0 == CHOOSE i \in starts : \A k \in starts : i <= k
    IN  SubSeq(t, i0, MatchFrom(p, 1, u, i0) - 1)

(***************************************************************************)
(* SecurityChecker (src/src/security.ts)                                   *)
(***************************************************************************)
dangerousPatterns ==
    << <<Lit("rm"), Ws(1), Lit("-rf"), Ws(1), Lit("/"), WsOrEnd>>,
       <<Lit("rm"), Ws(1), Lit("-rf"), Ws(1), Lit("/*")>>,
       <<Lit("mkfs"), WsOrEnd>>,
       <<Lit(":(){:|:&};:")>>,
       <<Lit("dd"), Ws(1), Lit("if=/dev/"), Alt(<<"zero", "random">>)>>,
       <<Lit("chmod"), Ws(1), Lit("-R"), Ws(1), Lit("777"), Ws(1), Lit("/")>>,
       <<Lit(">/dev/sda")>>,
       <<Lit("format"), Ws(1), Alt(<<"c", "C">>), Lit(":")>>,
       <<Lit("del"), Ws(1), Lit("/"), Alt(<<"s", "S">>), Ws(1), Lit("/"),
         Alt(<<"q", "Q">>), Ws(1), Alt(<<"c", "C">>), Lit(":\\")>> >>

additionalDangerousPatterns ==
    << [pattern |-> <<Lit("sudo"), Ws(1), Lit("rm"), Ws(1), Lit("-rf")>>,
        description |-> "sudo rm -rf"],
       [pattern |-> <<Lit(">"), Ws(0), Lit("/dev/null"), Ws(1), Lit("2>&1"), Ws(1),
                      Lit("&"), Ws(0), End>>,
        description |-> "Background process with no output"],
       [pattern |-> <<Lit("fork"), Ws(0), Lit("bomb")>>, description |-> "Fork bomb"],
       [pattern |-> <<Wb, Lit("killall"), Wb>>, description |-> "killall command"],
       [pattern |-> <<Wb, Lit("pkill"), Ws(1), Lit("-9")>>,
        description |-> "Force kill processes"],
       [pattern |-> <<Lit("iptables"), Ws(1), Lit("-F")>>,
        description |-> "Flush firewall rules"],
       [pattern |-> <<Wb, Lit("shutdown"), Wb>>, description |-> "System shutdown"],
       [pattern |-> <<Wb, Lit("reboot"), Wb>>, description |-> "System reboot"] >>

\* all of these carry the i flag
suspiciousActions ==
    << [pattern |-> <<Lit("curl"), Ws(1), Dots, Lit("|"), Ws(0), Alt(<<"bash", "sh">>)>>,
        description |-> "Downloading and executing remote script"],
       [pattern |-> <<Lit("wget"), Ws(1), Dots, Lit("|"), Ws(0), Alt(<<"bash", "sh">>)>>,
        description |-> "Downloading and executing remote script"],
       [pattern |-> <<Lit("eval"), Ws(1), Dots, Lit("curl")>>,
        description |-> "Evaluating downloaded content"],
       [pattern |-> <<Lit("base64"), Ws(1), Lit("-d"), Dots, Lit("|"), Ws(0),
                      Alt(<<"bash", "sh">>)>>,
        description |-> "Executing base64 decoded content"],
       [pattern |-> <<Lit("python"), Ws(1), Lit("-c"), Ws(1), Dots, Lit("exec")>>,
        description |-> "Executing dynamic Python code"],
       [pattern |-> <<Lit("perl"), Ws(1), Lit("-e"), Ws(1), Dots, Lit("system")>>,
        description |-> "Executing system commands via Perl"] >>

\* a for...of loop with early return stops at the least index that hits, 0 if none
First(hits) ==
    IF hits = {} THEN 0 ELSE CHOOSE k \in hits : \A m \in hits : k <= m

FullCommand(scriptContent, parameters) == scriptContent \o " " \o parameters

\* lines 25-35: whitelist first, then blacklist, each in list order
WhitelistHit(fullCommand, wl) == \E k \in 1..Len(wl) : Includes(fullCommand, wl[k])
LastBlacklisted(fullCommand, bl) ==
    LET hits == {k \in 1..Len(bl) : Includes(fullCommand, bl[k])}
    IN  IF hits = {} THEN 0 ELSE CHOOSE k \in hits : \A m \in hits : k >= m
FirstBlacklisted(fullCommand, bl) ==
    First({k \in 1..Len(bl) : Includes(fullCommand, bl[k])})
\* lines 37-42
FirstDangerous(fullCommand) ==
    First({k \in 1..Len(dangerousPatterns) : Test(dangerousPatterns[k], fullCommand, FALSE)})
\* lines 55-59
FirstAdditional(fullCommand) ==
    First({k \in 1..Len(additionalDangerousPatterns) :
              Test(additionalDangerousPatterns[k].pattern, fullCommand, FALSE)})
\* lines 97-98: the next suspicious pattern from index `from` on that matches
NextSuspicious(command, from) ==
    First({k \in from..Len(suspiciousActions) :
              Test(suspiciousActions[k].pattern, command, TRUE)})

\* what a call of the checker has produced so far: a returned string, a
\* returned null, or an open modal prompt for suspicious pattern idx
Returned(value) == [kind |-> "string", value |-> value, idx |-> 0]
Null == [kind |-> "null", value |-> "", idx |-> 0]
Prompt(k) == [kind |-> "prompt", value |-> "", idx |-> k]

\* checkSuspiciousPatterns from pattern `from` on: either the modal prompt of
\* the next matching pattern is shown, or the loop ends and null is returned.
checkSuspiciousPatterns(command, from) ==
    LET k == NextSuspicious(command, from)
    IN  IF k = 0 THEN Null ELSE Prompt(k)

\* the user's answer to the prompt of pattern k (lines 107-111); "" is a
\* dismissed dialog (undefined)
SuspiciousAnswers == {"Review Script", "Continue Anyway", "Cancel", ""}
answerSuspicious(command, k, action) ==
    IF action = "Review Script" THEN Returned(suspiciousActions[k].description)
    ELSE IF action = "Cancel" \/ action = "" THEN Returned(suspiciousActions[k].description)
    ELSE checkSuspiciousPatterns(command, k + 1)

\* checkForDangerousCommands up to its first suspension: a value is returned
\* or a suspicious-pattern prompt is open.
checkBlacklistBeforeWhitelist(scriptContent, parameters, wl, bl) ==
    LET fullCommand == FullCommand(scriptContent, parameters)
        b == FirstBlacklisted(fullCommand, bl)
        d == FirstDangerous(fullCommand)
        a == FirstAdditional(fullCommand)
    IN  IF b # 0 THEN Returned(bl[b])
        ELSE IF WhitelistHit(fullCommand, wl) THEN Null
        ELSE IF d # 0 THEN Returned(Match0(dangerousPatterns[d], fullCommand, FALSE))
        ELSE IF a # 0 THEN Returned(additionalDangerousPatterns[a].description)
        ELSE checkSuspiciousPatterns(fullCommand, 1)
checkForDangerousCommands(scriptContent, parameters, wl, bl) ==
    LET fullCommand == FullCommand(scriptContent, parameters)
        b == FirstBlacklisted(fullCommand, bl)
        d == FirstDangerous(fullCommand)
        a == FirstAdditional(fullCommand)
    IN  IF WhitelistHit(fullCommand, wl) THEN Null
        ELSE IF b # 0 THEN Returned(bl[b])
        ELSE IF d # 0 THEN Returned(Match0(dangerousPatterns[d], fullCommand, FALSE))
        ELSE IF a # 0 THEN Returned(additionalDangerousPatterns[a].description)
        ELSE checkSuspiciousPatterns(fullCommand, 1)

\* `if (dangerousCommand)`: null and the empty string are falsy
Truthy(r) == r.kind = "string" /\ r.value # ""

(***************************************************************************)
(* Executor (src/src/executor.ts)                                          *)
(***************************************************************************)
Scripts == {"a.sh", "b.sh"}

MaxTerminals == 2   \* terminals created in one behaviour
MaxCalls == 2       \* executeScript calls in flight
MaxStops == 1       \* stopScript calls in flight

Terminals == 1..MaxTerminals

\* script bodies and parameters the requests of the lifecycle draw from
RunContents == {"echo ok", "rm -rf /*", "eval $(curl x | sh)"}
RunParameters == {""}
\* configured rule lists (dangerousCommandsWhitelist / ...Blacklist)
RunWhitelists == {<<>>}
RunBlacklists == {<<"rm -rf /", "rm -rf /*", "mkfs", ":(){:|:&};:">>}

\* inputs of the stand-alone calls of the checker
SecContents ==
    {"echo ok", "rm -rf /*", "rm -rf /tmp", "rm  -rf /", "rm -rf", "mkfs\nrm -rf ./tmp",
     "sudo rm -rf ./build; reboot", "reboot; sudo rm -rf x", "eval $(curl x | sh)",
     "wget x | sh; killall y", "CURL x | BASH", "curl x", "mkfs; curl x | sh"}
SecParameters == {"", "/", "| sh"}
SecWhitelists == {<<>>, <<"rm -rf ./tmp">>, <<"echo", "curl">>}
SecBlacklists ==
    {<<>>, <<"rm -rf /", "rm -rf /*", "mkfs", ":(){:|:&};:">>, <<"reboot", "sudo">>, <<"">>}

VARIABLES
    runningScripts,    \* Map scriptPath -> RunningScript
    terminals,         \* Map scriptPath -> terminal
    windowTerminals,   \* vscode.window.terminals
    disposed,          \* terminals on which dispose() was called
    nextTerminal,      \* identity of the next terminal createTerminal returns
    termScript,        \* scriptPath captured by the callbacks of a run
    completionTimers,  \* runs whose completionTimer is armed
    checkIntervals,    \* runs whose checkInterval is armed
    calls,             \* executeScript invocations
    stops,             \* stopScript invocations
    keepOpen,          \* configuration runmate.keepTerminalOpen
    whitelist,         \* ConfigManager.getDangerousCommandsWhitelist()
    blacklist,         \* ConfigManager.getDangerousCommandsBlacklist()
    fired,             \* onScriptStatusChanged events fired by the last handler
    last,              \* the handler that ran last, with its input and outcome
    sec,               \* a stand-alone call of checkForDangerousCommands
    managed,           \* TerminalManager.terminals, in insertion order
    terminalsByScript, \* TerminalManager.terminalsByScript
    liveTerminals,     \* vscode.window.terminals, as the TerminalManager reads it
    closing,           \* closed terminals whose close event is not delivered yet
    nextId,            \* identity of the next managed terminal
    maxTerminalHistory,\* configuration runmate.maxTerminalHistory
    warnings,          \* limit warnings open, waiting for the user's selection
    tmLast             \* the TerminalManager method that ran last, with its outcome

execVars == <<runningScripts, terminals, windowTerminals, disposed, nextTerminal,
              termScript, completionTimers, checkIntervals>>
configVars == <<keepOpen, whitelist, blacklist>>
managerVars == <<managed, terminalsByScript, liveTerminals, closing, nextId,
                 maxTerminalHistory, warnings, tmLast>>
vars == <<runningScripts, terminals, windowTerminals, disposed, nextTerminal,
          termScript, completionTimers, checkIntervals, calls, stops,
          keepOpen, whitelist, blacklist, fired, last, sec,
         managed, terminalsByScript, liveTerminals, closing, nextId,
         maxTerminalHistory, warnings, tmLast>>

NoTimer == 0
\* the locals of an executeScript invocation suspended at its first await
\* (idx and action are the suspicious pattern prompted last and the answer
\* to it)
Call(scriptPath, parameters) ==
    [pc |-> "ensureExecutable", scriptPath |-> scriptPath, parameters |-> parameters,
     fullCommand |-> "", idx |-> 0, action |-> "", dangerousCommand |-> ""]
IdleSec == [pc |-> "idle", fullCommand |-> "", idx |-> 0, result |-> Null, prompts |-> 0]

Handler(op, scriptPath, run, arg, text, result) ==
    [op |-> op, scriptPath |-> scriptPath, run |-> run, arg |-> arg, text |-> text,
     result |-> result]

Has(map, key) == key \in DOMAIN map
Delete(map, key) == [x \in DOMAIN map \ {key} |-> map[x]]
Put(map, key, value) == [x \in DOMAIN map \cup {key} |-> IF x = key THEN value ELSE map[x]]
EmptyMap == [x \in {} |-> 0]

\* the mutable state of the Executor and of its timers, as one value that the
\* methods below transform; `fired` collects the events of the handler
St ==
    [runningScripts |-> runningScripts, terminals |-> terminals,
     windowTerminals |-> windowTerminals, disposed |-> disposed,
     nextTerminal |-> nextTerminal, termScript |-> termScript,
     completionTimers |-> completionTimers, checkIntervals |-> checkIntervals,
     fired |-> <<>>]

\* the terminals something still refers to when a handler ends: those open
\* in the window, those whose callbacks are armed, those of the records and
\* those captured by the stopScript invocations in flight
Referenced(st) ==
    st.windowTerminals \cup st.completionTimers \cup st.checkIntervals
        \cup {st.runningScripts[p].terminal : p \in DOMAIN st.runningScripts}
        \cup {stop.terminal : stop \in BagToSet(stops)}

\* a handler ends in state st; what belongs to terminals nothing refers to
\* any more is unreachable and is dropped
Set(st) ==
    /\ runningScripts' = st.runningScripts
    /\ terminals' = st.terminals
    /\ windowTerminals' = st.windowTerminals
    /\ disposed' = st.disposed \cap Referenced(st)
    /\ nextTerminal' = st.nextTerminal
    /\ termScript' = [t \in DOMAIN st.termScript \cap Referenced(st) |-> st.termScript[t]]
    /\ completionTimers' = st.completionTimers
    /\ checkIntervals' = st.checkIntervals
    /\ fired' = st.fired

Fire(st, scriptPath) == [st EXCEPT !.fired = Append(@, scriptPath)]

\* clearInterval / clearTimeout of a completion timer handle
ClearTimer(st, id) == [st EXCEPT !.completionTimers = @ \ {id}]

getScriptStatusRunningOnly(scriptPath) ==
    IF Has(runningScripts, scriptPath) /\ runningScripts[scriptPath].status = "running"
    THEN "running"
    ELSE "idle"

getScriptStatus(scriptPath) ==
    IF Has(runningScripts, scriptPath) THEN runningScripts[scriptPath].status ELSE "idle"

updateScriptStatus(st, scriptPath, status) ==
    IF Has(st.runningScripts, scriptPath)
    THEN Fire([st EXCEPT !.runningScripts[scriptPath].status = status], scriptPath)
    ELSE st

handleScriptCompletionAsFailed(st, scriptPath, status) ==
    IF Has(st.runningScripts, scriptPath)
    THEN updateScriptStatus(ClearTimer(st, st.runningScripts[scriptPath].intervalId),
                            scriptPath, "failed")
    ELSE st
handleScriptCompletionKeepsTerminalEntry(st, scriptPath, status) ==
    IF Has(st.runningScripts, scriptPath)
    THEN LET st1 == ClearTimer(st, st.runningScripts[scriptPath].intervalId)
         IN  Fire([st1 EXCEPT !.runningScripts = Delete(@, scriptPath)], scriptPath)
    ELSE st

handleScriptCompletion(st, scriptPath, status) ==
    IF Has(st.runningScripts, scriptPath)
    THEN LET st1 == ClearTimer(st, st.runningScripts[scriptPath].intervalId)
             st2 == [st1 EXCEPT !.runningScripts = Delete(@, scriptPath),
                                !.terminals = Delete(@, scriptPath)]
         IN  Fire(st2, scriptPath)
    ELSE st

\* the record of scriptPath was inserted for terminal t just before the call
monitorScriptCompletion(st, scriptPath, keep) ==
    IF ~Has(st.runningScripts, scriptPath) THEN st
    ELSE IF ~keep THEN st
    ELSE LET t == st.runningScripts[scriptPath].terminal
         IN  [st EXCEPT !.completionTimers = @ \cup {t},
                        !.runningScripts[scriptPath].intervalId = t,
                        !.checkIntervals = @ \cup {t}]

\* executeScript from createTerminal to the end of the try block (lines 124-170)
startScript(st, scriptPath, keep) ==
    LET t == st.nextTerminal
        runningScript == [terminal |-> t, status |-> "running", intervalId |-> NoTimer]
        st1 == [st EXCEPT !.nextTerminal = t + 1,
                          !.windowTerminals = @ \cup {t},
                          !.termScript = Put(@, t, scriptPath)]
        st2 == [st1 EXCEPT !.runningScripts = Put(@, scriptPath, runningScript),
                           !.terminals = Put(@, scriptPath, t)]
    IN  monitorScriptCompletion(st2, scriptPath, keep)

\* the catch block of executeScript (lines 172-175)
catchError(st, scriptPath) == updateScriptStatus(st, scriptPath, "failed")

\* the values of the checker on the inputs the requests draw from, tabulated
\* as sets of <<input, value>> pairs
Lookup(table, x) == (CHOOSE e \in table : e[1] = x)[2]
RunCheckTable ==
    {<<x, checkForDangerousCommands(x[1], x[2], x[3], x[4])>> :
        x \in RunContents \X RunParameters \X RunWhitelists \X RunBlacklists}
RunCommands == {FullCommand(y[1], y[2]) : y \in RunContents \X RunParameters}
RunAnswerTable ==
    {<<x, answerSuspicious(x[1], x[2], x[3])>> :
        x \in RunCommands \X (1..Len(suspiciousActions)) \X SuspiciousAnswers}

InitExecutor ==
    /\ runningScripts = EmptyMap
    /\ terminals = EmptyMap
    /\ windowTerminals = {}
    /\ disposed = {}
    /\ nextTerminal = 1
    /\ termScript = EmptyMap
    /\ completionTimers = {}
    /\ checkIntervals = {}
    /\ calls = EmptyBag
    /\ stops = EmptyBag
    /\ fired = <<>>
    /\ last = Handler("init", "", 0, "", "", "")
    /\ sec = IdleSec

\* the default of runmate.maxTerminalHistory
DefaultMaxTerminalHistory == 10

\* a method of the TerminalManager that ran: its name, and for
\* getOrCreateTerminal the script and the reuse mode asked and the terminal
\* returned; for markCompleted and closeScriptTerminal their arguments; for
\* a warning answered, the selection. count is the number
\* closeAllTerminals and closeCompletedTerminals report, and for
\* getOrCreateTerminal the number of closed sessions its scan untracked
TmHandler(op, scriptPath, arg, terminal, count) ==
    [op |-> op, scriptPath |-> scriptPath, arg |-> arg, terminal |-> terminal,
     count |-> count]

\* the TerminalManager after construction
InitTerminalManager ==
    /\ managed = <<>>
    /\ terminalsByScript = EmptyMap
    /\ liveTerminals = {}
    /\ closing = {}
    /\ nextId = 1
    /\ warnings = 0
    /\ tmLast = TmHandler("init", "", "", 0, 0)

Init ==
    /\ InitExecutor
    /\ InitTerminalManager
    /\ maxTerminalHistory = DefaultMaxTerminalHistory
    /\ keepOpen \in BOOLEAN
    /\ whitelist \in RunWhitelists
    /\ blacklist \in RunBlacklists

\* the executeScript invocations in flight
InFlight == BagCardinality(calls)
Bag1(x) == SetToBag({x})

\* executeScript up to `await this.ensureExecutable(scriptPath)` (lines 99-106)
ExecuteScriptUnchecked(scriptPath, parameters) ==
    /\ InFlight < MaxCalls
    /\ nextTerminal + InFlight <= MaxTerminals
    /\ calls' = calls (+) Bag1(Call(scriptPath, parameters))
    /\ last' = Handler("executeScript", scriptPath, 0, parameters, "", "suspended")
    /\ fired' = <<>>
    /\ UNCHANGED <<execVars, stops, configVars, sec, managerVars>>
ExecuteScript(scriptPath, parameters) ==
    /\ IF Has(runningScripts, scriptPath)
       THEN /\ last' = Handler("executeScript", scriptPath, 0, parameters, "", "alreadyRunning")
            /\ UNCHANGED calls
       ELSE /\ InFlight < MaxCalls
            /\ nextTerminal + InFlight <= MaxTerminals
            /\ calls' = calls (+) Bag1(Call(scriptPath, parameters))
            /\ last' = Handler("executeScript", scriptPath, 0, parameters, "", "suspended")
    /\ fired' = <<>>
    /\ UNCHANGED <<execVars, stops, configVars, sec, managerVars>>

\* the call ends in the catch block: ensureExecutable rejected, readFileSync
\* or createTerminal threw
Throw(call, op, arg, text) ==
    /\ Set(catchError(St, call.scriptPath))
    /\ calls' = calls (-) Bag1(call)
    /\ last' = Handler(op, call.scriptPath, 0, arg, text, "error")

\* lines 124-170, or an exception of createTerminal
Start(call, op, arg, text) ==
    \/ /\ Set(startScript(St, call.scriptPath, keepOpen))
       /\ calls' = calls (-) Bag1(call)
       /\ last' = Handler(op, call.scriptPath, nextTerminal, arg, text, "started")
    \/ Throw(call, op, arg, text)

\* executeScript from the value r of the checker on (lines 109-122)
Proceed(call, op, arg, fullCommand, idx, r) ==
    IF r.kind = "prompt"
    THEN /\ calls' = (calls (-) Bag1(call))
                        (+) Bag1([call EXCEPT !.pc = "suspicious",
                                              !.fullCommand = fullCommand,
                                              !.idx = r.idx,
                                              !.action = ""])
         /\ last' = Handler(op, call.scriptPath, 0, arg, fullCommand, "suspended")
         /\ fired' = <<>>
         /\ UNCHANGED execVars
    ELSE IF Truthy(r)
    THEN /\ calls' = (calls (-) Bag1(call))
                        (+) Bag1([call EXCEPT !.pc = "confirm",
                                              !.fullCommand = fullCommand,
                                              !.idx = idx,
                                              !.action = arg,
                                              !.dangerousCommand = r.value])
         /\ last' = Handler(op, call.scriptPath, 0, arg, fullCommand, "suspended")
         /\ fired' = <<>>
         /\ UNCHANGED execVars
    ELSE Start(call, op, arg, fullCommand)

\* ensureExecutable settles (it rejects when chmod fails, lines 228-230); the
\* script is read and checked (lines 106-109)
ResumeIgnoringGrantFailure(call) ==
    /\ BagIn(call, calls)
    /\ call.pc = "ensureExecutable"
    /\ \/ Start(call, "resume", "ensureExecutable", "")
       \/ Throw(call, "resume", "readFileSync", "")
       \/ \E scriptContent \in RunContents :
            Proceed(call, "resume", "", FullCommand(scriptContent, call.parameters), 0,
                    Lookup(RunCheckTable,
                           <<scriptContent, call.parameters, whitelist, blacklist>>))
    /\ UNCHANGED <<stops, configVars, sec, managerVars>>
Resume(call) ==
    /\ BagIn(call, calls)
    /\ call.pc = "ensureExecutable"
    /\ \/ Throw(call, "resume", "ensureExecutable", "")
       \/ Throw(call, "resume", "readFileSync", "")
       \/ \E scriptContent \in RunContents :
            Proceed(call, "resume", "", FullCommand(scriptContent, call.parameters), 0,
                    Lookup(RunCheckTable,
                           <<scriptContent, call.parameters, whitelist, blacklist>>))
    /\ UNCHANGED <<stops, configVars, sec, managerVars>>

\* the user answers the suspicious-pattern prompt (security.ts lines 99-111)
AnswerSuspicious(call, action) ==
    /\ BagIn(call, calls)
    /\ call.pc = "suspicious"
    /\ Proceed(call, "answerSuspicious", action, call.fullCommand, call.idx,
               Lookup(RunAnswerTable, <<call.fullCommand, call.idx, action>>))
    /\ UNCHANGED <<stops, configVars, sec, managerVars>>

\* the user answers "Dangerous command detected" (lines 112-122); "" is a
\* dismissed dialog
ConfirmAnswers == {"Continue", "Cancel", ""}
AnswerConfirmCancelOnly(call, confirmation) ==
    /\ BagIn(call, calls)
    /\ call.pc = "confirm"
    /\ IF confirmation = "Cancel"
       THEN /\ calls' = calls (-) Bag1(call)
            /\ last' = Handler("answerConfirm", call.scriptPath, 0, confirmation,
                               call.fullCommand, "aborted")
            /\ fired' = <<>>
            /\ UNCHANGED execVars
       ELSE Start(call, "answerConfirm", confirmation, call.fullCommand)
    /\ UNCHANGED <<stops, configVars, sec, managerVars>>
AnswerConfirm(call, confirmation) ==
    /\ BagIn(call, calls)
    /\ call.pc = "confirm"
    /\ IF confirmation # "Continue"
       THEN /\ calls' = calls (-) Bag1(call)
            /\ last' = Handler("answerConfirm", call.scriptPath, 0, confirmation,
                               call.fullCommand, "aborted")
            /\ fired' = <<>>
            /\ UNCHANGED execVars
       ELSE Start(call, "answerConfirm", confirmation, call.fullCommand)
    /\ UNCHANGED <<stops, configVars, sec, managerVars>>

\* stopScript up to `await showQuickPick` (lines 178-192): the invocation
\* keeps the record it read
StopScriptFiresWhenAbsent(scriptPath) ==
    /\ IF ~Has(runningScripts, scriptPath)
       THEN /\ last' = Handler("stopScript", scriptPath, 0, "", "", "notRunning")
            /\ fired' = <<scriptPath>>
            /\ UNCHANGED stops
       ELSE /\ BagCardinality(stops) < MaxStops
            /\ stops' = stops (+) Bag1([scriptPath |-> scriptPath,
                                       terminal |-> runningScripts[scriptPath].terminal,
                                       intervalId |-> runningScripts[scriptPath].intervalId])
            /\ last' = Handler("stopScript", scriptPath,
                               runningScripts[scriptPath].terminal, "", "", "suspended")
            /\ fired' = <<>>
    /\ UNCHANGED <<execVars, calls, configVars, sec, managerVars>>
StopScript(scriptPath) ==
    /\ IF ~Has(runningScripts, scriptPath)
       THEN /\ last' = Handler("stopScript", scriptPath, 0, "", "", "notRunning")
            /\ UNCHANGED stops
       ELSE /\ BagCardinality(stops) < MaxStops
            /\ stops' = stops (+) Bag1([scriptPath |-> scriptPath,
                                       terminal |-> runningScripts[scriptPath].terminal,
                                       intervalId |-> runningScripts[scriptPath].intervalId])
            /\ last' = Handler("stopScript", scriptPath,
                               runningScripts[scriptPath].terminal, "", "", "suspended")
    /\ fired' = <<>>
    /\ UNCHANGED <<execVars, calls, configVars, sec, managerVars>>

\* stopScript after the picker (lines 194-221); "" is a dismissed picker
Graceful == "Terminate Gracefully (SIGINT)"
Force == "Force Kill (SIGKILL)"
StopActions == {Graceful, Force, "Cancel", ""}
stopScriptKeepsTerminalEntry(st, scriptPath, runningScript) ==
    LET st1 == IF runningScript.intervalId # NoTimer
               THEN ClearTimer(st, runningScript.intervalId) ELSE st
        st2 == [st1 EXCEPT !.disposed = @ \cup {runningScript.terminal}]
        st3 == [st2 EXCEPT !.runningScripts = Delete(@, scriptPath)]
    IN  Fire(st3, scriptPath)
stopScript(st, scriptPath, runningScript) ==
    LET st1 == IF runningScript.intervalId # NoTimer
               THEN ClearTimer(st, runningScript.intervalId) ELSE st
        st2 == [st1 EXCEPT !.disposed = @ \cup {runningScript.terminal}]
        st3 == [st2 EXCEPT !.runningScripts = Delete(@, scriptPath),
                           !.terminals = Delete(@, scriptPath)]
    IN  Fire(st3, scriptPath)

StopPickIgnoringCancel(stop, action) ==
    /\ BagIn(stop, stops)
    /\ Set(stopScript(St, stop.scriptPath, stop))
    /\ last' = Handler("stopPick", stop.scriptPath, stop.terminal, action, "",
                       IF action = "Cancel" \/ action = "" THEN "cancelled" ELSE "stopped")
    /\ stops' = stops (-) Bag1(stop)
    /\ UNCHANGED <<calls, configVars, sec, managerVars>>

StopPick(stop, action) ==
    /\ BagIn(stop, stops)
    /\ IF action = "Cancel" \/ action = ""
       THEN /\ last' = Handler("stopPick", stop.scriptPath, stop.terminal, action,
                               "", "cancelled")
            /\ fired' = <<>>
            /\ UNCHANGED execVars
       ELSE /\ Set(stopScript(St, stop.scriptPath, stop))
            /\ last' = Handler("stopPick", stop.scriptPath, stop.terminal, action,
                               "", "stopped")
    /\ stops' = stops (-) Bag1(stop)
    /\ UNCHANGED <<calls, configVars, sec, managerVars>>

\* the completionTimer callback of run t (lines 300-305)
completionTimer(st, t) ==
    LET st1 == [st EXCEPT !.completionTimers = @ \ {t}]
    IN  IF Has(st1.runningScripts, st.termScript[t])
        THEN handleScriptCompletion(st1, st.termScript[t], "success")
        ELSE st1

CompletionTimer(t) ==
    /\ t \in completionTimers
    /\ Set(completionTimer(St, t))
    /\ last' = Handler("completionTimer", termScript[t], t, "", "", "")
    /\ UNCHANGED <<calls, stops, configVars, sec, managerVars>>

\* one tick of the checkInterval of run t (lines 311-330)
checkInterval(st, t) ==
    LET scriptPath == st.termScript[t]
        cleared == [st EXCEPT !.completionTimers = @ \ {t}, !.checkIntervals = @ \ {t}]
    IN  IF t \notin st.windowTerminals
        THEN IF Has(st.runningScripts, scriptPath)
             THEN handleScriptCompletion(cleared, scriptPath, "success")
             ELSE cleared
        ELSE IF ~Has(st.runningScripts, scriptPath) THEN cleared
        ELSE st

CheckInterval(t) ==
    /\ t \in checkIntervals
    /\ Set(checkInterval(St, t))
    /\ last' = Handler("checkInterval", termScript[t], t, "", "", "")
    /\ UNCHANGED <<calls, stops, configVars, sec, managerVars>>

\* the maxMonitorTime timeout of run t (lines 333-335) clears the
\* checkInterval if that is still armed; it is due 30 minutes after the
\* completionTimer, which by then has fired or was cleared
MaxMonitor(t) ==
    /\ t \in checkIntervals
    /\ t \notin completionTimers
    /\ Set([St EXCEPT !.checkIntervals = @ \ {t}])
    /\ last' = Handler("maxMonitor", termScript[t], t, "", "", "")
    /\ UNCHANGED <<calls, stops, configVars, sec, managerVars>>

\* a terminal closes (closed by the user, by `exit` of its shell, or after
\* dispose): it leaves window.terminals and onDidCloseTerminal runs (lines 44-54)
onDidCloseTerminalSettlesAny(st, t) ==
    LET owners == DOMAIN st.runningScripts
    IN  IF owners # {}
        THEN handleScriptCompletion(st, CHOOSE p \in owners : TRUE, "success")
        ELSE st

onDidCloseTerminal(st, t) ==
    LET owners == {p \in DOMAIN st.runningScripts : st.runningScripts[p].terminal = t}
    IN  IF owners # {}
        THEN handleScriptCompletion(st, CHOOSE p \in owners : TRUE, "success")
        ELSE st

TerminalClosed(t) ==
    /\ t \in windowTerminals
    /\ Set(onDidCloseTerminal([St EXCEPT !.windowTerminals = @ \ {t}], t))
    /\ last' = Handler("onDidCloseTerminal", termScript[t], t, "", "", "")
    /\ UNCHANGED <<calls, stops, configVars, sec, managerVars>>

Next ==
    \/ \E p \in Scripts, q \in RunParameters : ExecuteScript(p, q)
    \/ \E call \in BagToSet(calls) : Resume(call)
    \/ \E call \in BagToSet(calls), a \in SuspiciousAnswers : AnswerSuspicious(call, a)
    \/ \E call \in BagToSet(calls), a \in ConfirmAnswers : AnswerConfirm(call, a)
    \/ \E p \in Scripts : StopScript(p)
    \/ \E stop \in BagToSet(stops), a \in StopActions : StopPick(stop, a)
    \/ \E t \in Terminals : CompletionTimer(t)
    \/ \E t \in Terminals : CheckInterval(t)
    \/ \E t \in Terminals : MaxMonitor(t)
    \/ \E t \in Terminals : TerminalClosed(t)

Spec == Init /\ [][Next]_vars

\* armed timers fire: setTimeout and setInterval callbacks are run by the
\* event loop; nothing obliges the user to act or a terminal to close
TimersFire ==
    \A t \in Terminals :
        WF_vars(CompletionTimer(t)) /\ WF_vars(CheckInterval(t)) /\ WF_vars(MaxMonitor(t))

SpecLive == Init /\ [][Next]_vars /\ TimersFire

\* Executor.dispose (lines 367-382): the timer handle of every record is
\* cleared, every tracked terminal is disposed, both maps are emptied; no
\* event is fired
dispose(st) ==
    [st EXCEPT
        !.completionTimers = @ \ {st.runningScripts[p].intervalId : p \in DOMAIN st.runningScripts},
        !.disposed = @ \cup {st.terminals[p] : p \in DOMAIN st.terminals},
        !.terminals = EmptyMap,
        !.runningScripts = EmptyMap]

Dispose ==
    /\ Set(dispose(St))
    /\ last' = Handler("dispose", "", 0, "", "", "")
    /\ UNCHANGED <<calls, stops, configVars, sec, managerVars>>

\* the executor with its disposal among the operations
NextDispose ==
    \/ \E p \in Scripts, q \in RunParameters : ExecuteScript(p, q)
    \/ \E call \in BagToSet(calls) : Resume(call)
    \/ \E call \in BagToSet(calls), a \in SuspiciousAnswers : AnswerSuspicious(call, a)
    \/ \E call \in BagToSet(calls), a \in ConfirmAnswers : AnswerConfirm(call, a)
    \/ \E p \in Scripts : StopScript(p)
    \/ \E stop \in BagToSet(stops), a \in StopActions : StopPick(stop, a)
    \/ \E t \in Terminals : CompletionTimer(t)
    \/ \E t \in Terminals : CheckInterval(t)
    \/ \E t \in Terminals : MaxMonitor(t)
    \/ \E t \in Terminals : TerminalClosed(t)
    \/ Dispose

SpecDispose == Init /\ [][NextDispose]_vars

\* A status query by an observer (the tree view asks on every refresh).
GetScriptStatus(scriptPath) ==
    /\ last' = Handler("getScriptStatus", scriptPath, 0, "", "", getScriptStatus(scriptPath))
    /\ fired' = <<>>
    /\ UNCHANGED <<execVars, calls, stops, configVars, sec, managerVars>>

\* The executor with keepTerminalOpen off, queried at any moment. With the
\* setting off monitorScriptCompletion arms no timer, so the timer callbacks
\* are never enabled and are left out of the next-state relation.
InitStatus == Init /\ keepOpen = FALSE

NextStatus ==
    \/ \E p \in Scripts, q \in RunParameters : ExecuteScript(p, q)
    \/ \E call \in BagToSet(calls) : Resume(call)
    \/ \E call \in BagToSet(calls), a \in SuspiciousAnswers : AnswerSuspicious(call, a)
    \/ \E call \in BagToSet(calls), a \in ConfirmAnswers : AnswerConfirm(call, a)
    \/ \E p \in Scripts : StopScript(p)
    \/ \E stop \in BagToSet(stops), a \in StopActions : StopPick(stop, a)
    \/ \E t \in Terminals : TerminalClosed(t)
    \/ \E p \in Scripts : GetScriptStatus(p)

SpecStatus == InitStatus /\ [][NextStatus]_vars

(***************************************************************************)
(* Stand-alone calls of SecurityChecker.checkForDangerousCommands          *)
(***************************************************************************)
InitSec ==
    /\ InitExecutor
    /\ InitTerminalManager
    /\ maxTerminalHistory = DefaultMaxTerminalHistory
    /\ keepOpen = TRUE
    /\ whitelist \in SecWhitelists
    /\ blacklist \in SecBlacklists

SecState(fullCommand, r, prompts) ==
    [pc |-> IF r.kind = "prompt" THEN "prompt" ELSE "returned",
     fullCommand |-> fullCommand, idx |-> r.idx, result |-> r,
     prompts |-> IF r.kind = "prompt" THEN prompts + 1 ELSE prompts]

\* the call, up to its first suspension or its return
SecCall(scriptContent, parameters) ==
    /\ sec.pc = "idle"
    /\ sec' = SecState(FullCommand(scriptContent, parameters),
                       checkForDangerousCommands(scriptContent, parameters,
                                                 whitelist, blacklist), 0)
    /\ last' = Handler("checkForDangerousCommands", "", 0, "", "", "")
    /\ UNCHANGED <<execVars, calls, stops, configVars, fired, managerVars>>

\* the user answers the open prompt
SecAnswer(action) ==
    /\ sec.pc = "prompt"
    /\ sec' = SecState(sec.fullCommand,
                       answerSuspicious(sec.fullCommand, sec.idx, action), sec.prompts)
    /\ last' = Handler("answerSuspicious", "", 0, action, "", "")
    /\ UNCHANGED <<execVars, calls, stops, configVars, fired, managerVars>>

\* the caller has consumed the returned value
SecDone ==
    /\ sec.pc = "returned"
    /\ sec' = IdleSec
    /\ last' = Handler("init", "", 0, "", "", "")
    /\ UNCHANGED <<execVars, calls, stops, configVars, fired, managerVars>>

NextSec ==
    \/ \E scriptContent \in SecContents, parameters \in SecParameters :
            SecCall(scriptContent, parameters)
    \/ \E a \in SuspiciousAnswers : SecAnswer(a)
    \/ SecDone

SpecSec == InitSec /\ [][NextSec]_vars

(***************************************************************************)
(* TerminalManager (src/unnamed/part_003)                                  *)
(***************************************************************************)
ReuseModes == {"always", "never", "smart"}
WarningSelections == {"Close Completed", "Close All", "Ignore"}
Limits == {1, 2}     \* values of runmate.maxTerminalHistory tried
MaxManaged == 2      \* terminals the manager creates in one behaviour
MaxWarnings == 1     \* limit warnings open at once

ManagedIds == 1..MaxManaged

\* a ManagedTerminal with its key in the map; the terminal object and the
\* generated id are both fresh at creation
ManagedTerminal(id, scriptPath) ==
    [id |-> id, terminal |-> id, scriptPath |-> scriptPath, status |-> "running"]

\* the two maps of the manager as one value that its methods transform
Tm == [terminals |-> managed, terminalsByScript |-> terminalsByScript]

\* Array.prototype.indexOf, 1-based; 0 stands for -1
indexOf(ids, id) ==
    IF \E i \in 1..Len(ids) : ids[i] = id
    THEN CHOOSE i \in 1..Len(ids) : ids[i] = id /\ \A j \in 1..(i - 1) : ids[j] # id
    ELSE 0

\* ids.splice(index, 1)
splice(ids, index) == SubSeq(ids, 1, index - 1) \o SubSeq(ids, index + 1, Len(ids))

\* Map.get on the insertion-ordered map of managed terminals
Position(ts, id) ==
    IF \E i \in 1..Len(ts) : ts[i].id = id
    THEN CHOOSE i \in 1..Len(ts) : ts[i].id = id
    ELSE 0

removeTerminalTrackingMapOnly(tm, terminalId, scriptPath) ==
    LET pos == Position(tm.terminals, terminalId)
    IN  [tm EXCEPT !.terminals = IF pos = 0 THEN @ ELSE splice(@, pos)]

removeTerminalTracking(tm, terminalId, scriptPath) ==
    LET pos == Position(tm.terminals, terminalId)
        ts == IF pos = 0 THEN tm.terminals ELSE splice(tm.terminals, pos)
        by == tm.terminalsByScript
    IN  IF Has(by, scriptPath)
        THEN LET index == indexOf(by[scriptPath], terminalId)
                 ids == IF index > 0 THEN splice(by[scriptPath], index) ELSE by[scriptPath]
             IN  [terminals |-> ts,
                  terminalsByScript |-> IF ids = <<>> THEN Delete(by, scriptPath)
                                        ELSE Put(by, scriptPath, ids)]
        ELSE [terminals |-> ts, terminalsByScript |-> by]

\* the scan of findReusableTerminal from the i-th entry of the map as it was
\* when the scan began: entries whose terminal is closed are untracked on
\* the way
RECURSIVE findReusableFrom(_, _, _, _)
findReusableFrom(tm, entries, i, reuseMode) ==
    IF i > Len(entries)
    THEN [tm |-> tm, id |-> 0]
    ELSE LET m == entries[i]
         IN  IF m.terminal \notin liveTerminals
             THEN findReusableFrom(removeTerminalTracking(tm, m.id, m.scriptPath),
                                   entries, i + 1, reuseMode)
             ELSE IF reuseMode = "always"
             THEN [tm |-> tm, id |-> m.id]
             ELSE IF reuseMode = "smart" /\ m.status # "running"
             THEN [tm |-> tm, id |-> m.id]
             ELSE findReusableFrom(tm, entries, i + 1, reuseMode)

findReusableTerminalAnyStatus(tm, reuseMode) ==
    findReusableFrom(tm, tm.terminals, 1, "always")

findReusableTerminal(tm, reuseMode) ==
    findReusableFrom(tm, tm.terminals, 1, reuseMode)

updateScriptTerminalMappingAddOnly(tm, scriptPath, terminalId) ==
    LET by == tm.terminalsByScript
        scriptTerminals == IF Has(by, scriptPath) THEN by[scriptPath] ELSE <<>>
    IN  [tm EXCEPT !.terminalsByScript =
            IF indexOf(scriptTerminals, terminalId) = 0
            THEN Put(by, scriptPath, Append(scriptTerminals, terminalId))
            ELSE by]

updateScriptTerminalMapping(tm, scriptPath, terminalId) ==
    LET by == tm.terminalsByScript
        Others(path) ==
            IF path # scriptPath /\ indexOf(by[path], terminalId) > 0
            THEN splice(by[path], indexOf(by[path], terminalId))
            ELSE by[path]
        kept == {path \in DOMAIN by : Others(path) # <<>> \/ by[path] = <<>>}
        cleaned == [path \in kept |-> Others(path)]
        scriptTerminals == IF Has(cleaned, scriptPath) THEN cleaned[scriptPath] ELSE <<>>
    IN  [tm EXCEPT !.terminalsByScript =
            IF indexOf(scriptTerminals, terminalId) = 0
            THEN Put(cleaned, scriptPath, Append(scriptTerminals, terminalId))
            ELSE cleaned]

checkTerminalLimitSilent(tm, limit) ==
    FALSE

\* checkTerminalLimit raises the warning; its selection arrives later
checkTerminalLimit(tm, limit) ==
    Len(tm.terminals) > limit

\* What getOrCreateTerminal leaves: the maps, the terminal returned, whether
\* it was created by this call and whether the limit warning was raised.
\* Lines 73-100: the entry found is bound to the requesting script.
reuseTerminalKeepingBinding(tm, scriptPath, existingTerminalId) ==
    [tm |-> tm, terminal |-> tm.terminals[Position(tm.terminals, existingTerminalId)].terminal,
     created |-> FALSE, warned |-> FALSE]

reuseTerminal(tm, scriptPath, existingTerminalId) ==
    LET pos == Position(tm.terminals, existingTerminalId)
        rebound == [tm EXCEPT !.terminals[pos].scriptPath = scriptPath,
                              !.terminals[pos].status = "running"]
    IN  [tm |-> updateScriptTerminalMapping(rebound, scriptPath, existingTerminalId),
         terminal |-> tm.terminals[pos].terminal, created |-> FALSE, warned |-> FALSE]

\* Lines 105-144: a terminal is created and tracked. generateTerminalId
\* draws on the clock and on Math.random; its ids are taken as fresh.
createTerminal(tm, scriptPath) ==
    LET by == tm.terminalsByScript
        scriptTerminals == IF Has(by, scriptPath) THEN by[scriptPath] ELSE <<>>
        added == [terminals |-> Append(tm.terminals, ManagedTerminal(nextId, scriptPath)),
                  terminalsByScript |-> Put(by, scriptPath, Append(scriptTerminals, nextId))]
    IN  [tm |-> added, terminal |-> nextId, created |-> TRUE,
         warned |-> checkTerminalLimit(added, maxTerminalHistory)]

getOrCreateTerminalIgnoringNever(tm, scriptPath, reuseMode) ==
    LET found == findReusableTerminal(tm, IF reuseMode = "never" THEN "smart" ELSE reuseMode)
    IN  IF found.id # 0
        THEN reuseTerminal(found.tm, scriptPath, found.id)
        ELSE createTerminal(found.tm, scriptPath)

getOrCreateTerminal(tm, scriptPath, reuseMode) ==
    LET found == IF reuseMode # "never" THEN findReusableTerminal(tm, reuseMode)
                 ELSE [tm |-> tm, id |-> 0]
    IN  IF found.id # 0
        THEN reuseTerminal(found.tm, scriptPath, found.id)
        ELSE createTerminal(found.tm, scriptPath)

RECURSIVE markCompletedFrom(_, _, _, _)
markCompletedFrom(tm, terminalIds, i, status) ==
    IF i > Len(terminalIds)
    THEN tm
    ELSE LET pos == Position(tm.terminals, terminalIds[i])
         IN  IF pos # 0 /\ tm.terminals[pos].status = "running"
             THEN [tm EXCEPT !.terminals[pos].status = status]
             ELSE markCompletedFrom(tm, terminalIds, i + 1, status)

markCompletedAll(tm, scriptPath, success) ==
    [tm EXCEPT !.terminals =
        [i \in DOMAIN @ |->
            IF @[i].scriptPath = scriptPath /\ @[i].status = "running"
            THEN [@[i] EXCEPT !.status = IF success THEN "completed" ELSE "failed"]
            ELSE @[i]]]

markCompleted(tm, scriptPath, success) ==
    markCompletedFrom(tm,
                      IF Has(tm.terminalsByScript, scriptPath)
                      THEN tm.terminalsByScript[scriptPath] ELSE <<>>,
                      1, IF success THEN "completed" ELSE "failed")

\* the terminals a close method calls dispose() on
AllManaged(tm) == {tm.terminals[i].terminal : i \in 1..Len(tm.terminals)}

closeAllTerminals(tm) == [terminals |-> <<>>, terminalsByScript |-> EmptyMap]

Completed(tm) ==
    SelectSeq(tm.terminals, LAMBDA m : m.status = "completed" \/ m.status = "failed")

RECURSIVE removeAll(_, _, _)
removeAll(tm, toRemove, i) ==
    IF i > Len(toRemove)
    THEN tm
    ELSE LET pos == Position(tm.terminals, toRemove[i].id)
         IN  removeAll(IF pos # 0
                       THEN removeTerminalTracking(tm, toRemove[i].id,
                                                   tm.terminals[pos].scriptPath)
                       ELSE tm,
                       toRemove, i + 1)

closeCompletedOnly(tm) ==
    removeAll(tm, SelectSeq(tm.terminals, LAMBDA m : m.status = "completed"), 1)

closeCompletedTerminals(tm) ==
    removeAll(tm, Completed(tm), 1)

\* the loop of closeScriptTerminal walks the very array that
\* removeTerminalTracking splices: terminalIds is that array as it stands,
\* i the position the iterator has reached
RECURSIVE closeScriptFrom(_, _, _, _, _)
closeScriptFrom(tm, terminalIds, i, scriptPath, disposedNow) ==
    IF i > Len(terminalIds)
    THEN [tm |-> tm, disposed |-> disposedNow]
    ELSE LET id == terminalIds[i]
             pos == Position(tm.terminals, id)
         IN  IF pos # 0
             THEN closeScriptFrom(removeTerminalTracking(tm, id, scriptPath),
                                  splice(terminalIds, indexOf(terminalIds, id)), i + 1,
                                  scriptPath,
                                  disposedNow \cup {tm.terminals[pos].terminal})
             ELSE closeScriptFrom(tm, terminalIds, i + 1, scriptPath, disposedNow)

closeScriptTerminal(tm, scriptPath) ==
    closeScriptFrom(tm,
                    IF Has(tm.terminalsByScript, scriptPath)
                    THEN tm.terminalsByScript[scriptPath] ELSE <<>>,
                    1, scriptPath, {})

handleTerminalClosed(tm, terminal) ==
    LET hits == {i \in 1..Len(tm.terminals) : tm.terminals[i].terminal = terminal}
    IN  IF hits # {}
        THEN LET i == CHOOSE i \in hits : \A j \in hits : i <= j
             IN  removeTerminalTracking(tm, tm.terminals[i].id, tm.terminals[i].scriptPath)
        ELSE tm

RECURSIVE CountStatus(_, _)
CountStatus(ts, status) ==
    IF ts = <<>> THEN 0
    ELSE (IF Head(ts).status = status THEN 1 ELSE 0) + CountStatus(Tail(ts), status)

getTerminalCountsWithoutFailed ==
    [total |-> Len(managed),
     running |-> CountStatus(managed, "running"),
     completed |-> CountStatus(managed, "completed") + CountStatus(managed, "failed"),
     failed |-> 0]

getTerminalCounts ==
    [total |-> Len(managed),
     running |-> CountStatus(managed, "running"),
     completed |-> CountStatus(managed, "completed"),
     failed |-> CountStatus(managed, "failed")]

\* A method of the manager ends with its maps as in tm, having called
\* dispose() on the terminals of disposedNow. Of the window and of the close
\* events to come, only what concerns a terminal still managed is kept: the
\* manager reads the window for its own entries only, and the close event of
\* a terminal it does not manage finds no entry (lines 331-336).
SetTm(tm, disposedNow) ==
    /\ managed' = tm.terminals
    /\ terminalsByScript' = tm.terminalsByScript
    /\ liveTerminals' = (liveTerminals \ disposedNow) \cap AllManaged(tm)
    /\ closing' = closing \cap AllManaged(tm)

executorVars == <<execVars, calls, stops, configVars, fired, last, sec>>

GetOrCreateTerminal(scriptPath, reuseMode) ==
    LET r == getOrCreateTerminal(Tm, scriptPath, reuseMode)
    IN  /\ r.created => nextId <= MaxManaged
        /\ r.warned => warnings < MaxWarnings
        /\ managed' = r.tm.terminals
        /\ terminalsByScript' = r.tm.terminalsByScript
        /\ liveTerminals' = (liveTerminals \cup (IF r.created THEN {r.terminal} ELSE {}))
                                \cap AllManaged(r.tm)
        /\ closing' = closing \cap AllManaged(r.tm)
        /\ nextId' = IF r.created THEN nextId + 1 ELSE nextId
        /\ warnings' = IF r.warned THEN warnings + 1 ELSE warnings
        /\ tmLast' = TmHandler("getOrCreateTerminal", scriptPath, reuseMode, r.terminal,
                               Len(managed) + (IF r.created THEN 1 ELSE 0)
                                  - Len(r.tm.terminals))
        /\ UNCHANGED <<maxTerminalHistory, executorVars>>

MarkCompleted(scriptPath, success) ==
    /\ SetTm(markCompleted(Tm, scriptPath, success), {})
    /\ tmLast' = TmHandler("markCompleted", scriptPath,
                           IF success THEN "success" ELSE "failure", 0, 0)
    /\ UNCHANGED <<nextId, maxTerminalHistory, warnings, executorVars>>

CloseAllTerminals ==
    /\ SetTm(closeAllTerminals(Tm), AllManaged(Tm))
    /\ tmLast' = TmHandler("closeAllTerminals", "", "", 0, Len(managed))
    /\ UNCHANGED <<nextId, maxTerminalHistory, warnings, executorVars>>

CloseCompletedTerminals ==
    /\ SetTm(closeCompletedTerminals(Tm), AllManaged([Tm EXCEPT !.terminals = Completed(Tm)]))
    /\ tmLast' = TmHandler("closeCompletedTerminals", "", "", 0, Len(Completed(Tm)))
    /\ UNCHANGED <<nextId, maxTerminalHistory, warnings, executorVars>>

CloseScriptTerminal(scriptPath) ==
    LET r == closeScriptTerminal(Tm, scriptPath)
    IN  /\ SetTm(r.tm, r.disposed)
        /\ tmLast' = TmHandler("closeScriptTerminal", scriptPath, "", 0, 0)
        /\ UNCHANGED <<nextId, maxTerminalHistory, warnings, executorVars>>

\* The user closes a terminal, or its shell exits. The API fixes no order
\* between the update of vscode.window.terminals and the delivery of the
\* close event to this listener, so the two are separate steps.
TerminalExits(t) ==
    /\ t \in liveTerminals
    /\ liveTerminals' = liveTerminals \ {t}
    /\ closing' = closing \cup {t}
    /\ tmLast' = TmHandler("exit", "", "", 0, 0)
    /\ UNCHANGED <<managed, terminalsByScript, nextId, maxTerminalHistory, warnings,
                   executorVars>>

HandleTerminalClosed(t) ==
    /\ t \in closing
    /\ SetTm(handleTerminalClosed(Tm, t), {})
    /\ tmLast' = TmHandler("handleTerminalClosed", "", "", 0, 0)
    /\ UNCHANGED <<nextId, maxTerminalHistory, warnings, executorVars>>

\* onDidChangeConfiguration for runmate.maxTerminalHistory
ConfigurationChanged(limit) ==
    /\ limit # maxTerminalHistory
    /\ checkTerminalLimit(Tm, limit) => warnings < MaxWarnings
    /\ maxTerminalHistory' = limit
    /\ warnings' = IF checkTerminalLimit(Tm, limit) THEN warnings + 1 ELSE warnings
    /\ tmLast' = TmHandler("configurationChanged", "", "", 0, 0)
    /\ UNCHANGED <<managed, terminalsByScript, liveTerminals, closing, nextId,
                   executorVars>>

\* the user answers a limit warning
WarningSelected(selection) ==
    /\ warnings > 0
    /\ \/ /\ selection = "Close Completed"
          /\ SetTm(closeCompletedTerminals(Tm),
                   AllManaged([Tm EXCEPT !.terminals = Completed(Tm)]))
       \/ /\ selection = "Close All"
          /\ SetTm(closeAllTerminals(Tm), AllManaged(Tm))
       \/ /\ selection = "Ignore"
          /\ SetTm(Tm, {})
    /\ warnings' = warnings - 1
    /\ tmLast' = TmHandler("warningSelected", "", selection, 0,
                           IF selection = "Close Completed" THEN Len(Completed(Tm))
                           ELSE IF selection = "Close All" THEN Len(managed)
                           ELSE 0)
    /\ UNCHANGED <<nextId, maxTerminalHistory, executorVars>>

InitManager ==
    /\ InitExecutor
    /\ InitTerminalManager
    /\ keepOpen = TRUE
    /\ whitelist \in RunWhitelists
    /\ blacklist \in RunBlacklists
    /\ maxTerminalHistory \in Limits

NextManager ==
    \/ \E p \in Scripts, mode \in ReuseModes : GetOrCreateTerminal(p, mode)
    \/ \E p \in Scripts, success \in BOOLEAN : MarkCompleted(p, success)
    \/ CloseAllTerminals
    \/ CloseCompletedTerminals
    \/ \E p \in Scripts : CloseScriptTerminal(p)
    \/ \E t \in ManagedIds : TerminalExits(t)
    \/ \E t \in ManagedIds : HandleTerminalClosed(t)
    \/ \E limit \in Limits : ConfigurationChanged(limit)
    \/ \E selection \in WarningSelections : WarningSelected(selection)

SpecManager == InitManager /\ [][NextManager]_vars

TypeOK ==
    /\ DOMAIN runningScripts \subseteq Scripts
    /\ DOMAIN terminals \subseteq Scripts
    /\ windowTerminals \subseteq Terminals
    /\ nextTerminal \in 1..(MaxTerminals + 1)

(***************************************************************************)
(* Properties                                                              *)
(***************************************************************************)
Callbacks == {"completionTimer", "checkInterval", "onDidCloseTerminal"}

\* C1: of several concurrent requests for a script exactly one creates a
\* terminal and inserts a record: whenever a request creates a terminal for
\* a script, no record of that script is held (no second live run).
C1_ExactlyOneAccepted ==
    [][nextTerminal' # nextTerminal => ~Has(runningScripts, termScript'[nextTerminal])]_vars

\* C2: a request for a script whose record is held is rejected at once: it
\* reports "already running", suspends at no await (no permission grant, no
\* security evaluation), creates no terminal, arms no timer, fires no event
\* and leaves every record unchanged.
C2_RejectedSynchronously ==
    [][(last'.op = "executeScript" /\ Has(runningScripts, last'.scriptPath))
        => /\ last'.result = "alreadyRunning"
           /\ UNCHANGED <<execVars, calls, stops>>
           /\ fired' = <<>>]_vars

C2_Witness ==
    /\ last.op = "executeScript"
    /\ last.result = "alreadyRunning"
    /\ Has(runningScripts, last.scriptPath)
    /\ runningScripts[last.scriptPath].status = "running"

\* C3: a stop with mode Graceful or Force leaves the script Idle, with no
\* entry in runningScripts nor in terminals, and the terminal of the run it
\* was invoked on disposed.
C3_StopYieldsIdle ==
    [][(last'.op = "stopPick" /\ last'.arg \in {Graceful, Force})
        => \E p \in Scripts :
             /\ p = last'.scriptPath
             /\ ~Has(runningScripts', p)
             /\ ~Has(terminals', p)
             /\ getScriptStatus(p)' = "idle"
             /\ last'.run \in disposed']_vars

C3_Witness ==
    /\ last.op = "stopPick"
    /\ last.arg \in {Graceful, Force}
    /\ last.result = "stopped"
    /\ last.run \in disposed
    /\ getScriptStatus(last.scriptPath) = "idle"

\* C4: once a run was stopped (its terminal disposed by stop), no callback of
\* that run (completion timer, poll tick, terminal-close handler) fires a
\* status-changed event or changes a record.
C4_NoLateEventAfterStop ==
    [][(last'.op \in Callbacks /\ last'.run \in disposed)
        => (fired' = <<>> /\ runningScripts' = runningScripts)]_vars

\* C5: a callback armed for one run never removes or alters the record of
\* another run.
C5_CallbacksBoundToRun ==
    [][\A p \in DOMAIN runningScripts :
          (last'.op \in Callbacks /\ last'.run # runningScripts[p].terminal)
              => (Has(runningScripts', p) /\ runningScripts'[p] = runningScripts[p])]_vars

\* C6: when completion of a Running run is inferred, its record goes to
\* Success (still held, so that getScriptStatus returns Success) and
\* status-changed is fired.
C6_SuccessDuringGrace ==
    [][\A p \in DOMAIN runningScripts :
          (/\ last'.op \in Callbacks
           /\ runningScripts[p].status = "running"
           /\ (~Has(runningScripts', p) \/ runningScripts'[p] # runningScripts[p]))
              => (getScriptStatus(p)' = "success" /\ fired' # <<>>)]_vars

\* the Deny verdicts on the commands of the requests: no whitelist entry
\* matches and a blacklist entry or a built-in pattern does
DenyVerdict(fullCommand, wl, bl) ==
    /\ ~\E k \in 1..Len(wl) : Includes(fullCommand, wl[k])
    /\ \/ \E k \in 1..Len(bl) : Includes(fullCommand, bl[k])
       \/ \E k \in 1..Len(dangerousPatterns) : Test(dangerousPatterns[k], fullCommand, FALSE)
RunVerdicts ==
    {<<x, DenyVerdict(x[1], x[2], x[3])>> : x \in RunCommands \X RunWhitelists \X RunBlacklists}
\* the step resumes the suspended invocation `call`
Resumed(call) == CopiesIn(call, calls') < CopiesIn(call, calls)
Denied(fullCommand) ==
    fullCommand \in RunCommands /\ Lookup(RunVerdicts, <<fullCommand, whitelist, blacklist>>)

C8_DeclineIsFinal ==
    [][\A call \in BagToSet(calls) :
          (/\ call.pc = "confirm" /\ call.idx # 0
           /\ call.action \in {"Cancel", ""} /\ Resumed(call))
              => nextTerminal' = nextTerminal]_vars

WhitelistMatches(t) == \E k \in 1..Len(whitelist) : Includes(t, whitelist[k])
BlacklistMatches(t) == {k \in 1..Len(blacklist) : Includes(t, blacklist[k])}
DangerousMatches(t) ==
    {k \in 1..Len(dangerousPatterns) : Test(dangerousPatterns[k], t, FALSE)}
AdditionalMatches(t) ==
    {k \in 1..Len(additionalDangerousPatterns) :
        Test(additionalDangerousPatterns[k].pattern, t, FALSE)}
SuspiciousMatches(t) ==
    {k \in 1..Len(suspiciousActions) : Test(suspiciousActions[k].pattern, t, TRUE)}
Least(S) == CHOOSE k \in S : \A m \in S : k <= m

\* C9: when a whitelist entry is a substring of the combined text, the call
\* returns null and has shown no prompt, whatever else matches.
C9_WhitelistPrecedence ==
    (sec.pc # "idle" /\ WhitelistMatches(sec.fullCommand))
        => (sec.pc = "returned" /\ sec.result = Null /\ sec.prompts = 0)

C9_Witness ==
    /\ sec.pc = "returned"
    /\ WhitelistMatches(sec.fullCommand)
    /\ BlacklistMatches(sec.fullCommand) # {}
    /\ DangerousMatches(sec.fullCommand) # {}
    /\ sec.result = Null

\* the reason the first matching rule of the first matching tier gives
\* (null when a whitelist entry matches or nothing does)
FirstMatchReason(t) ==
    IF WhitelistMatches(t) THEN Null
    ELSE IF BlacklistMatches(t) # {} THEN Returned(blacklist[Least(BlacklistMatches(t))])
    ELSE IF DangerousMatches(t) # {}
         THEN Returned(Match0(dangerousPatterns[Least(DangerousMatches(t))], t, FALSE))
    ELSE IF AdditionalMatches(t) # {}
         THEN Returned(additionalDangerousPatterns[Least(AdditionalMatches(t))].description)
    ELSE IF SuspiciousMatches(t) # {}
         THEN Returned(suspiciousActions[Least(SuspiciousMatches(t))].description)
    ELSE Null

C11_RootDeletionDenied ==
    (/\ sec.pc # "idle"
     /\ Includes(sec.fullCommand, "rm -rf /")
     /\ ~WhitelistMatches(sec.fullCommand))
        => (sec.pc = "returned" /\ sec.result = Returned("rm -rf /"))

\* C12: the evaluation performs no user interaction: it never waits at a
\* prompt, and what it returns was decided without an answer of the user.
C12_PureEvaluation ==
    sec.pc # "prompt" /\ sec.prompts = 0

\* C13: no callback of the completion monitor (terminal-close handler,
\* completion timer, poll tick, ceiling timeout) sets the status of a record
\* to Failed.
C13_MonitorNeverFails ==
    [][last'.op \in Callbacks \cup {"maxMonitor"}
        => \A p \in DOMAIN runningScripts' :
              runningScripts'[p].status = "failed"
                  => (Has(runningScripts, p) /\ runningScripts[p].status = "failed")]_vars

C13_Witness ==
    /\ last.op \in Callbacks
    /\ fired = <<last.scriptPath>>
    /\ ~Has(runningScripts, last.scriptPath)
    /\ \A p \in DOMAIN runningScripts : runningScripts[p].status # "failed"

\* the run of terminal t holds a record in state Running
RunningRun(t) ==
    \E p \in DOMAIN runningScripts :
        runningScripts[p].terminal = t /\ runningScripts[p].status = "running"

\* C14: when the terminal of a run does not close and no stop is issued, the
\* run, once Running, is eventually settled (by the timeout timer) and leaves
\* the Running state.
C14_TimeoutFallback ==
    \A t \in Terminals :
        [](stops = EmptyBag /\ (t < nextTerminal => t \in windowTerminals))
            => (RunningRun(t) ~> ~RunningRun(t))

\* C15: no lifecycle entry leaks: the record of every script is eventually
\* removed even if the terminal never closes and stop is never issued.
C15_NoEntryLeaks ==
    \A p \in Scripts : Has(runningScripts, p) ~> ~Has(runningScripts, p)

\* C16: stopScript on a script that has no record reports "not running" and
\* does nothing else: no event, no terminal disposed, no timer cancelled,
\* both maps unchanged, no picker opened.
C16_StopAbsentIsNoOp ==
    [][(last'.op = "stopScript" /\ ~Has(runningScripts, last'.scriptPath))
        => /\ last'.result = "notRunning"
           /\ fired' = <<>>
           /\ UNCHANGED <<execVars, stops, calls>>]_vars

C16_Witness ==
    /\ last.op = "stopScript"
    /\ last.result = "notRunning"
    /\ ~Has(runningScripts, last.scriptPath)
    /\ runningScripts # EmptyMap
    /\ checkIntervals # {}

\* C17: whenever a record enters Running (a request was accepted and its
\* record inserted), a status-changed event for that script is fired in the
\* same step.
C17_RunningIsAnnounced ==
    [][\A p \in Scripts :
          (/\ Has(runningScripts', p)
           /\ runningScripts'[p].status = "running"
           /\ (Has(runningScripts, p)
                  => runningScripts[p].terminal # runningScripts'[p].terminal))
              => \E i \in 1..Len(fired') : fired'[i] = p]_vars

\* C18: when granting execute permission fails, the request ends there: no
\* security evaluation (no combined text was built), no terminal, no record
\* inserted, no timer armed, and the invocation is not kept for a retry.
C18_GrantFailureAborts ==
    [][(last'.op = "resume" /\ last'.arg = "ensureExecutable")
        => /\ last'.result = "error"
           /\ last'.text = ""
           /\ nextTerminal' = nextTerminal
           /\ windowTerminals' = windowTerminals
           /\ DOMAIN runningScripts' = DOMAIN runningScripts
           /\ terminals' = terminals
           /\ completionTimers' = completionTimers
           /\ checkIntervals' = checkIntervals
           /\ BagCardinality(calls') = BagCardinality(calls) - 1
           /\ \A call \in BagToSet(calls') : CopiesIn(call, calls') <= CopiesIn(call, calls)]_vars

C18_Witness ==
    /\ last.op = "resume"
    /\ last.arg = "ensureExecutable"
    /\ last.result = "error"
    /\ last.run = 0

\* C19: distinct scripts are independent. A request is answered "already
\* running" only when the requested script itself holds a record, and a step
\* taken for one script (request, stop, terminal close, timer callback)
\* leaves the record, the status and the terminal of every other script as
\* they were.
C19_ScriptsIndependent ==
    [][/\ (last'.op = "executeScript" /\ last'.result = "alreadyRunning")
            => Has(runningScripts, last'.scriptPath)
       /\ \A p \in Scripts :
            p # last'.scriptPath
                => /\ Has(runningScripts', p) <=> Has(runningScripts, p)
                   /\ Has(runningScripts, p) => runningScripts'[p] = runningScripts[p]
                   /\ Has(terminals', p) <=> Has(terminals, p)
                   /\ Has(terminals, p) => terminals'[p] = terminals[p]
                   /\ Has(terminals, p)
                        => /\ terminals[p] \in windowTerminals' <=> terminals[p] \in windowTerminals
                           /\ terminals[p] \in disposed' <=> terminals[p] \in disposed
                   /\ \A i \in 1..Len(fired') : fired'[i] # p]_vars

C19_Witness ==
    /\ last.op = "onDidCloseTerminal"
    /\ fired = <<last.scriptPath>>
    /\ ~Has(runningScripts, last.scriptPath)
    /\ \E p \in Scripts :
          /\ p # last.scriptPath
          /\ Has(runningScripts, p)
          /\ runningScripts[p].status = "running"
          /\ terminals[p] \in windowTerminals

\* C20: getScriptStatus is a pure read. A query changes nothing of the
\* executor and fires no event, it answers Idle exactly when no record is
\* held for the script, and a query that directly follows a query of the
\* same script gives the same answer.
C20_StatusIsPureRead ==
    [][last'.op = "getScriptStatus"
        => /\ UNCHANGED <<execVars, calls, stops, configVars>>
           /\ fired' = <<>>
           /\ last'.result = "idle" <=> ~Has(runningScripts, last'.scriptPath)
           /\ Has(runningScripts, last'.scriptPath)
                => last'.result = runningScripts[last'.scriptPath].status
           /\ (last.op = "getScriptStatus" /\ last.scriptPath = last'.scriptPath)
                => last'.result = last.result]_vars

C20_Witness ==
    /\ last.op = "getScriptStatus"
    /\ last.result = "failed"
    /\ Has(runningScripts, last.scriptPath)
    /\ \E p \in Scripts : ~Has(runningScripts, p)

\* C21: reuse mode 'never' always creates a session. The pool grows by
\* exactly one entry, the terminal returned is live and is none of those
\* pooled before, and every entry pooled before keeps its place, its
\* terminal, its script and its status.
C21_NeverCreatesFresh ==
    [][(tmLast'.op = "getOrCreateTerminal" /\ tmLast'.arg = "never")
        => /\ Len(managed') = Len(managed) + 1
           /\ SubSeq(managed', 1, Len(managed)) = managed
           /\ tmLast'.terminal \notin AllManaged(Tm)
           /\ tmLast'.terminal \in liveTerminals'
           /\ managed'[Len(managed')].terminal = tmLast'.terminal
           /\ managed'[Len(managed')].status = "running"]_vars

C21_Witness ==
    /\ tmLast.op = "getOrCreateTerminal"
    /\ tmLast.arg = "never"
    /\ Len(managed) = 2
    /\ managed[1].status = "completed"
    /\ managed[1].terminal \in liveTerminals
    /\ managed[2].terminal = tmLast.terminal

\* the entries of the pool whose terminal is open
LiveEntries == {i \in 1..Len(managed) : managed[i].terminal \in liveTerminals}

\* after the step the terminal returned is pooled, bound to the script of
\* the request and to nothing else, with status Running
BoundToRequest ==
    \E j \in 1..Len(managed') :
        /\ managed'[j].terminal = tmLast'.terminal
        /\ managed'[j].scriptPath = tmLast'.scriptPath
        /\ managed'[j].status = "running"
        /\ \A p \in DOMAIN terminalsByScript' :
              (indexOf(terminalsByScript'[p], managed'[j].id) > 0) <=> p = tmLast'.scriptPath

\* C22: reuse mode 'always'. When the pool holds a live session the call
\* returns one of the live sessions whatever its status, binds it to the
\* requesting script with status Running and creates nothing, so that the
\* live pooled sessions do not grow in number; only when no pooled session
\* is live is a session created.
C22_AlwaysReuses ==
    [][(tmLast'.op = "getOrCreateTerminal" /\ tmLast'.arg = "always")
        => /\ BoundToRequest
           /\ tmLast'.terminal \in liveTerminals'
           /\ LiveEntries # {}
                => /\ tmLast'.terminal \in {managed[i].terminal : i \in LiveEntries}
                   /\ nextId' = nextId
                   /\ liveTerminals' = liveTerminals
                   /\ Cardinality({j \in 1..Len(managed') :
                                      managed'[j].terminal \in liveTerminals'})
                         = Cardinality(LiveEntries)
                   /\ Len(managed') <= Len(managed)
           /\ LiveEntries = {}
                => /\ nextId' = nextId + 1
                   /\ tmLast'.terminal = nextId
                   /\ Len(managed') = 1]_vars

\* a session created for another script was handed out again: the index of
\* b.sh lists it after the session created for b.sh itself
C22_Witness ==
    /\ tmLast.op = "getOrCreateTerminal"
    /\ tmLast.arg = "always"
    /\ tmLast.scriptPath = "b.sh"
    /\ tmLast.terminal = 1
    /\ nextId = 3
    /\ Len(managed) = 2
    /\ terminalsByScript = [p \in {"b.sh"} |-> <<2, 1>>]

\* the live entries of the pool that are not Running
SettledEntries == {i \in LiveEntries : managed[i].status # "running"}

\* C23: reuse mode 'smart'. A live session whose status is Completed or
\* Failed is handed out again and nothing is created while one exists; a
\* session whose status is Running is never the one returned; when every
\* live session is Running a session is created.
C23_SmartReusesSettled ==
    [][(tmLast'.op = "getOrCreateTerminal" /\ tmLast'.arg = "smart")
        => /\ BoundToRequest
           /\ tmLast'.terminal \in liveTerminals'
           /\ \A i \in 1..Len(managed) :
                 managed[i].status = "running" => tmLast'.terminal # managed[i].terminal
           /\ SettledEntries # {}
                => /\ tmLast'.terminal \in {managed[i].terminal : i \in SettledEntries}
                   /\ nextId' = nextId
                   /\ liveTerminals' = liveTerminals
           /\ SettledEntries = {}
                => /\ nextId' = nextId + 1
                   /\ tmLast'.terminal = nextId
                   /\ Len(managed') = Cardinality(LiveEntries) + 1]_vars

\* the session created for a.sh, settled since, was handed to b.sh while the
\* session of b.sh was open and Running
C23_Witness ==
    /\ tmLast.op = "getOrCreateTerminal"
    /\ tmLast.arg = "smart"
    /\ tmLast.scriptPath = "b.sh"
    /\ tmLast.terminal = 1
    /\ Len(managed) = 2
    /\ managed[2].status = "running"
    /\ managed[2].terminal \in liveTerminals
    /\ terminalsByScript = [p \in {"b.sh"} |-> <<2, 1>>]

\* C24: under every reuse mode, getOrCreateTerminal leaves a session whose
\* status is Running bound to the script it was bound to: a session is
\* rebound only once its binding was released.
C24_NoRebindWhileRunning ==
    [][tmLast'.op = "getOrCreateTerminal"
        => \A i \in 1..Len(managed), j \in 1..Len(managed') :
              (managed[i].status = "running" /\ managed'[j].id = managed[i].id)
                  => managed'[j].scriptPath = managed[i].scriptPath]_vars

\* the user's close actions that may close a Running session
ClosedByUser ==
    \/ tmLast'.op \in {"closeAllTerminals", "closeScriptTerminal"}
    \/ tmLast'.op = "warningSelected" /\ tmLast'.arg = "Close All"

\* the step ran checkTerminalLimit: a terminal was created, or the limit
\* was changed
LimitChecked ==
    \/ tmLast'.op = "getOrCreateTerminal" /\ nextId' # nextId
    \/ tmLast'.op = "configurationChanged"

WithStatus(status) == {i \in 1..Len(managed) : managed[i].status = status}

\* C26: in every state of the pool the counts of getTerminalCounts add up,
\* total = running + completed + failed, total is the number of pooled
\* sessions and each of the three counts is the number of pooled sessions
\* with that status.
C26_CountsAgree ==
    /\ getTerminalCounts.total
          = getTerminalCounts.running + getTerminalCounts.completed + getTerminalCounts.failed
    /\ getTerminalCounts.total = Len(managed)
    /\ getTerminalCounts.running = Cardinality(WithStatus("running"))
    /\ getTerminalCounts.completed = Cardinality(WithStatus("completed"))
    /\ getTerminalCounts.failed = Cardinality(WithStatus("failed"))

C26_Witness ==
    /\ WithStatus("failed") # {}
    /\ WithStatus("running") \cup WithStatus("completed") # {}
    /\ getTerminalCounts.total = 2

\* the ids of the pooled sessions that are Running
RunningIds == {managed[i].id : i \in WithStatus("running")}

\* C27: closeCompletedTerminals, called directly or chosen in the limit
\* warning, removes from the pool exactly the sessions whose status is
\* Completed or Failed. Afterwards no pooled session is Completed or Failed,
\* and every session that was Running is pooled as before: same place among
\* the Running ones, same status, script and terminal, same index entry, its
\* terminal neither disposed nor closed by the call.
C27_CloseCompletedKeepsRunning ==
    [][(\/ tmLast'.op = "closeCompletedTerminals"
        \/ tmLast'.op = "warningSelected" /\ tmLast'.arg = "Close Completed")
        => /\ managed' = SelectSeq(managed, LAMBDA m : m.status = "running")
           /\ tmLast'.count = Len(managed) - Len(managed')
           /\ DOMAIN terminalsByScript'
                = {p \in DOMAIN terminalsByScript :
                      \E k \in 1..Len(terminalsByScript[p]) :
                          terminalsByScript[p][k] \in RunningIds}
           /\ \A p \in DOMAIN terminalsByScript' :
                 terminalsByScript'[p]
                    = SelectSeq(terminalsByScript[p], LAMBDA id : id \in RunningIds)
           /\ \A i \in WithStatus("running") :
                 managed[i].terminal \in liveTerminals' <=> managed[i].terminal \in liveTerminals]_vars

\* one of two sessions was closed as completed; the other, Running and
\* open, is pooled still
C27_Witness ==
    /\ tmLast.op = "closeCompletedTerminals"
    /\ tmLast.count = 1
    /\ Len(managed) = 1
    /\ managed[1].status = "running"
    /\ managed[1].terminal \in liveTerminals

\* C28: a stop of a script issued while a request for it is suspended, its
\* terminal not created yet, is not lost: when that request goes on right
\* after the stop, it does not leave the script Running in an open terminal.
C28_StopDuringRequestNotLost ==
    [][\A p \in Scripts :
          (/\ last.op = "stopScript"
           /\ last.scriptPath = p
           /\ last.result = "notRunning"
           /\ \E call \in BagToSet(calls) : call.scriptPath = p /\ Resumed(call))
              => ~(/\ Has(runningScripts', p)
                   /\ runningScripts'[p].status = "running"
                   /\ runningScripts'[p].terminal \in windowTerminals')]_vars

\* C29: the timers of a run are torn down at the moment the run ends. In a
\* step that removes the record of a run (a stop that takes effect, the
\* close of its terminal, its completion timer or its poll), neither the
\* completion timer nor the poll interval of that run stays armed.
C29_TimersTornDownAtEnd ==
    [][\A p \in DOMAIN runningScripts :
          (~Has(runningScripts', p) \/ runningScripts'[p].terminal # runningScripts[p].terminal)
              => /\ runningScripts[p].terminal \notin completionTimers'
                 /\ runningScripts[p].terminal \notin checkIntervals']_vars

\* the entries the reuse scan of the step has looked at: all of them when it
\* found nothing to reuse, else those up to the entry it returned
Met(i) ==
    \A j \in 1..Len(managed) : managed[j].terminal = tmLast'.terminal => i < j

\* C30: a reusing acquire ('always' or 'smart') never hands out a session
\* whose terminal is closed: the terminal returned is open when the call is
\* made, and every closed session the scan met is gone from the session map
\* and from the per-script index.
C30_ClosedNeverReused ==
    [][(tmLast'.op = "getOrCreateTerminal" /\ tmLast'.arg \in {"always", "smart"})
        => /\ tmLast'.terminal \in liveTerminals'
           /\ tmLast'.terminal \in AllManaged(Tm) => tmLast'.terminal \in liveTerminals
           /\ \A i \in 1..Len(managed) :
                 (managed[i].terminal \notin liveTerminals /\ Met(i))
                    => /\ \A j \in 1..Len(managed') : managed'[j].id # managed[i].id
                       /\ \A p \in DOMAIN terminalsByScript' :
                             indexOf(terminalsByScript'[p], managed[i].id) = 0
           /\ tmLast'.count
                = Cardinality({i \in 1..Len(managed) :
                                  managed[i].terminal \notin liveTerminals /\ Met(i)})]_vars

\* the scan untracked the closed session 1 and handed out the open session 2
C30_Witness ==
    /\ tmLast.op = "getOrCreateTerminal"
    /\ tmLast.arg \in {"always", "smart"}
    /\ tmLast.count = 1
    /\ tmLast.terminal = 2
    /\ Len(managed) = 1
    /\ managed[1].terminal = 2
    /\ DOMAIN terminalsByScript = {tmLast.scriptPath}

\* C31: stopScript acts only on the run that was live when it was invoked.
\* When the picker is answered with a stop mode while the record of the
\* script belongs to a later run (another terminal), that record is kept as
\* it is, its terminal stays tracked and no status-changed event reports the
\* later run as stopped.
C31_StopActsOnItsRun ==
    [][\A stop \in BagToSet(stops) :
          (/\ last'.op = "stopPick"
           /\ last'.result = "stopped"
           /\ CopiesIn(stop, stops') < CopiesIn(stop, stops)
           /\ Has(runningScripts, stop.scriptPath)
           /\ runningScripts[stop.scriptPath].terminal # stop.terminal)
              => /\ Has(runningScripts', stop.scriptPath)
                 /\ runningScripts'[stop.scriptPath] = runningScripts[stop.scriptPath]
                 /\ Has(terminals', stop.scriptPath)
                 /\ fired' = <<>>]_vars

\* the record of run t is held
Unsettled(t) == \E p \in DOMAIN runningScripts : runningScripts[p].terminal = t

\* C32: each run is settled at most once. Of the completion signals of one
\* run (its terminal-close event, its completion timer, a poll tick) only
\* the first takes effect: a signal of a run whose record is gone already
\* changes no record and fires no event.
C32_SettledOnce ==
    [][\A t \in Terminals :
          (last'.op \in Callbacks /\ last'.run = t /\ ~Unsettled(t))
              => (fired' = <<>> /\ runningScripts' = runningScripts /\ terminals' = terminals)]_vars

\* C33: a request that ends with an error (permission grant, reading the
\* script, creating the terminal) leaves the record map as it was, and in
\* particular leaves Running the record that a concurrent request of the
\* same script inserted meanwhile; it fires no status-changed event.
C33_ErrorLeavesRecords ==
    [][last'.result = "error"
        => (runningScripts' = runningScripts /\ terminals' = terminals /\ fired' = <<>>)]_vars

\* C34: a request is rejected as already running only while the record of
\* its script is Running; a record held with another status does not block
\* a new request.
C34_RejectedOnlyWhileRunning ==
    [][\A p \in Scripts :
          (/\ last'.op = "executeScript"
           /\ last'.scriptPath = p
           /\ last'.result = "alreadyRunning")
              => (Has(runningScripts, p) /\ runningScripts[p].status = "running")]_vars

\* C35: in every state of the Executor, disposal included, runningScripts
\* and terminals have the same keys, and the terminal tracked for a script
\* is the terminal of its record.
C35_MapsAgree ==
    /\ DOMAIN runningScripts = DOMAIN terminals
    /\ \A p \in DOMAIN runningScripts : terminals[p] = runningScripts[p].terminal

\* a run was settled while the other script holds its record and terminal
C35_Witness ==
    /\ last.op \in Callbacks
    /\ fired = <<last.scriptPath>>
    /\ ~Has(runningScripts, last.scriptPath)
    /\ ~Has(terminals, last.scriptPath)
    /\ \E p \in DOMAIN runningScripts : terminals[p] \in windowTerminals

\* C36: the two indexes of the pool agree in every state. An id is listed
\* under script p exactly when the session of that id is pooled with
\* scriptPath = p; so every pooled id is in one list only, and there once;
\* and no script is mapped to an empty list.
C36_IndexesAgree ==
    /\ \A p \in DOMAIN terminalsByScript :
          /\ terminalsByScript[p] # <<>>
          /\ \A k, l \in 1..Len(terminalsByScript[p]) :
                terminalsByScript[p][k] = terminalsByScript[p][l] => k = l
          /\ \A k \in 1..Len(terminalsByScript[p]) :
                \E i \in 1..Len(managed) :
                    managed[i].id = terminalsByScript[p][k] /\ managed[i].scriptPath = p
    /\ \A i \in 1..Len(managed) :
          /\ Has(terminalsByScript, managed[i].scriptPath)
          /\ indexOf(terminalsByScript[managed[i].scriptPath], managed[i].id) > 0
    /\ \A i, j \in 1..Len(managed) : managed[i].id = managed[j].id => i = j

\* a session was moved from the list of a.sh, now gone, to that of b.sh
C36_Witness ==
    /\ tmLast.op = "getOrCreateTerminal"
    /\ tmLast.scriptPath = "b.sh"
    /\ tmLast.terminal = 1
    /\ Len(managed) = 2
    /\ managed[1].scriptPath = "b.sh"
    /\ terminalsByScript = [p \in {"b.sh"} |-> <<2, 1>>]
    /\ tmLast.arg # "always"

\* C37: closeScriptTerminal(p) closes every session bound to p, however
\* many there are: afterwards no pooled session has scriptPath = p, the
\* index has no entry for p, and the sessions of the other scripts are as
\* they were.
C37_CloseScriptClosesAll ==
    [][\A p \in Scripts :
          (tmLast'.op = "closeScriptTerminal" /\ tmLast'.scriptPath = p)
              => /\ \A j \in 1..Len(managed') : managed'[j].scriptPath # p
                 /\ ~Has(terminalsByScript', p)
                 /\ managed' = SelectSeq(managed, LAMBDA m : m.scriptPath # p)]_vars

\* the pooled session that markCompleted(p, ..) looks at first among the
\* Running ones: the earliest in the list of p
FirstRunning(p) ==
    LET ids == terminalsByScript[p]
        running == {k \in 1..Len(ids) :
                       \E i \in 1..Len(managed) :
                           managed[i].id = ids[k] /\ managed[i].status = "running"}
    IN  IF running = {} THEN 0
        ELSE Position(managed, ids[CHOOSE k \in running : \A l \in running : k <= l])

\* C39: markCompleted(p, success) changes at most one session. The first
\* Running session bound to p becomes Completed when success is true and
\* Failed otherwise; every other session, the membership and the order of
\* the pool, the index and the terminals stay as they were; with no Running
\* session bound to p nothing changes.
C39_MarkCompletedMarksOne ==
    [][\A p \in Scripts :
          (tmLast'.op = "markCompleted" /\ tmLast'.scriptPath = p)
              => /\ terminalsByScript' = terminalsByScript
                 /\ liveTerminals' = liveTerminals
                 /\ closing' = closing
                 /\ IF Has(terminalsByScript, p) /\ FirstRunning(p) # 0
                    THEN managed' = [managed EXCEPT ![FirstRunning(p)].status =
                                        IF tmLast'.arg = "success" THEN "completed"
                                        ELSE "failed"]
                    ELSE managed' = managed]_vars

\* of two sessions bound to b.sh the first of its list was marked Failed,
\* the other is Running still
C39_Witness ==
    /\ tmLast.op = "markCompleted"
    /\ tmLast.scriptPath = "b.sh"
    /\ tmLast.arg = "failure"
    /\ Len(managed) = 2
    /\ terminalsByScript = [p \in {"b.sh"} |-> <<2, 1>>]
    /\ managed[2].status = "failed"
    /\ managed[1].status = "running"

\* C38: when the stop-mode picker is answered with Cancel or dismissed,
\* stopScript changes nothing: records, tracked terminals, armed timers and
\* the window are as before, no terminal is disposed and no status-changed
\* event is fired; only the invocation is over.
C38_CancelledStopIsNoOp ==
    [][(last'.op = "stopPick" /\ last'.arg \in {"Cancel", ""})
        => /\ last'.result = "cancelled"
           /\ UNCHANGED <<execVars, calls>>
           /\ fired' = <<>>
           /\ BagCardinality(stops') = BagCardinality(stops) - 1]_vars

\* the picker was dismissed while the run it asked about was Running in an
\* open terminal with its timers armed
C38_Witness ==
    /\ last.op = "stopPick"
    /\ last.arg = ""
    /\ last.result = "cancelled"
    /\ Has(runningScripts, last.scriptPath)
    /\ runningScripts[last.scriptPath].status = "running"
    /\ runningScripts[last.scriptPath].terminal = last.run
    /\ last.run \in windowTerminals \ disposed
    /\ last.run \in completionTimers \cap checkIntervals

====
